---------------------------- MODULE Spec2Model ----------------------------
(***************************************************************************)
(* Model of src/lib/htmlUtils.ts: the reversible markup-preservation       *)
(* mechanism (preserveHtmlContent / restoreHtmlContent), the detector      *)
(* (containsHtmlContent) and the allow-list sanitizer                      *)
(* (sanitizeHtmlContent).                                                  *)
(*                                                                         *)
(* A text is a sequence of characters; a character is a one-character      *)
(* string, and a character outside ASCII is written by its code point      *)
(* ("U+FF1A" is the full-width colon).  Positions in a text are 1-based;   *)
(* a lastIndex is the JavaScript value (the number of characters before    *)
(* the position where the next match attempt starts).                      *)
(***************************************************************************)
EXTENDS Integers, Sequences, FiniteSets

VARIABLES
    text,               \* the text of the request (argument of the calls)
    tagsLastIndex,      \* HTML_PATTERNS.TAGS.lastIndex (shared, module level)
    entitiesLastIndex,  \* HTML_PATTERNS.ENTITIES.lastIndex (shared, module level)
    op,                 \* the last call made
    detected,           \* return value of the last containsHtmlContent call
    processedText,      \* preserveHtmlContent(text).processedText
    preserved,          \* preserveHtmlContent(text).preserved
    translatedText,     \* first argument of the last restoreHtmlContent call
    restoredText,       \* return value of the last restoreHtmlContent call
    sanitizedText,      \* return value of the last sanitizeHtmlContent call
    cycles,             \* two requests, each on its own encode/decode cycle
    minting,            \* a preserveHtmlContent call taken one token at a time
    ms,                 \* a translateWithMicrosoft call and its fetches
    history             \* the lastIndex values the last call's replace calls found

\* the variables of the calls of one request
callVars == <<text, op, detected, processedText, preserved, translatedText,
              restoredText, sanitizedText>>

\* the shared scan positions of HTML_PATTERNS
patternVars == <<tagsLastIndex, entitiesLastIndex>>

vars == <<text, tagsLastIndex, entitiesLastIndex, op, detected, processedText,
          preserved, translatedText, restoredText, sanitizedText,
          cycles, minting, ms, history>>

-----------------------------------------------------------------------------
(* Characters and character classes of the patterns *)

FULLWIDTH_COLON == "U+FF1A"

LowerCaseChars ==
    <<"a", "b", "c", "d", "e", "f", "g", "h", "i", "j", "k", "l", "m",
      "n", "o", "p", "q", "r", "s", "t", "u", "v", "w", "x", "y", "z",
      "U+0127", "U+0111", "U+0142">>

UpperCaseChars ==
    <<"A", "B", "C", "D", "E", "F", "G", "H", "I", "J", "K", "L", "M",
      "N", "O", "P", "Q", "R", "S", "T", "U", "V", "W", "X", "Y", "Z",
      "U+0126", "U+0110", "U+0141">>

AsciiLetters ==
    {LowerCaseChars[i] : i \in 1..26} \cup {UpperCaseChars[i] : i \in 1..26}

Digits == {"0", "1", "2", "3", "4", "5", "6", "7", "8", "9"}

HexDigits ==
    Digits \cup {"a", "b", "c", "d", "e", "f", "A", "B", "C", "D", "E", "F"}

\* \s of a JavaScript pattern
WhiteSpace ==
    {" ", "\t", "\n", "\r", "\f", "U+000B", "U+00A0", "U+1680", "U+2028",
     "U+2029", "U+202F", "U+205F", "U+3000", "U+FEFF"}

IsLetter(c) == c \in AsciiLetters
IsAlnum(c) == c \in AsciiLetters \cup Digits
IsDigit(c) == c \in Digits
IsHex(c) == c \in HexDigits
IsSpace(c) == c \in WhiteSpace

UpperTable ==
    [c \in {LowerCaseChars[i] : i \in 1..Len(LowerCaseChars)} |->
        UpperCaseChars[CHOOSE i \in 1..Len(LowerCaseChars) : LowerCaseChars[i] = c]]

LowerTable ==
    [c \in {UpperCaseChars[i] : i \in 1..Len(UpperCaseChars)} |->
        LowerCaseChars[CHOOSE i \in 1..Len(UpperCaseChars) : UpperCaseChars[i] = c]]

ToUpperChar(c) == IF c \in DOMAIN UpperTable THEN UpperTable[c] ELSE c
ToLowerChar(c) == IF c \in DOMAIN LowerTable THEN LowerTable[c] ELSE c

\* Canonicalize of a pattern with the i flag: the upper-case form
Canonicalize(c) == ToUpperChar(c)

ToUpperCase(s) == [i \in 1..Len(s) |-> ToUpperChar(s[i])]
ToLowerCase(s) == [i \in 1..Len(s) |-> ToLowerChar(s[i])]

-----------------------------------------------------------------------------
(* The patterns.  XMatchEnd(s, i) is the position of the last character of *)
(* the match of pattern X that starts at position i of s, or 0 when the    *)
(* pattern does not match there.  No pattern matches the empty text.       *)

RECURSIVE SkipAlnum(_, _)
\* first position >= i holding no [a-zA-Z0-9] (Len(s) + 1 if there is none)
SkipAlnum(s, i) ==
    IF i <= Len(s) /\ IsAlnum(s[i]) THEN SkipAlnum(s, i + 1) ELSE i

RECURSIVE SkipDigits(_, _)
SkipDigits(s, i) ==
    IF i <= Len(s) /\ IsDigit(s[i]) THEN SkipDigits(s, i + 1) ELSE i

RECURSIVE SkipHex(_, _)
SkipHex(s, i) ==
    IF i <= Len(s) /\ IsHex(s[i]) THEN SkipHex(s, i + 1) ELSE i

RECURSIVE FindChar(_, _, _)
\* first position >= i holding c, or 0
FindChar(s, c, i) ==
    IF i > Len(s) THEN 0
    ELSE IF s[i] = c THEN i
    ELSE FindChar(s, c, i + 1)

\* after the tag name: (?:\s+[^>]*)?>  with the name ending before position e
AttributesMatchEnd(s, e) ==
    IF e > Len(s) THEN 0
    ELSE IF s[e] = ">" THEN e
    ELSE IF IsSpace(s[e]) THEN FindChar(s, ">", e + 1)
    ELSE 0

\* /<\/?[a-zA-Z][a-zA-Z0-9]*(?:\s+[^>]*)?>/
TagsMatchEnd(s, i) ==
    IF i > Len(s) \/ s[i] # "<" THEN 0
    ELSE LET n == IF i + 1 <= Len(s) /\ s[i + 1] = "/" THEN i + 2 ELSE i + 1
         IN  IF n > Len(s) \/ ~IsLetter(s[n]) THEN 0
             ELSE AttributesMatchEnd(s, SkipAlnum(s, n + 1))

\* /&(?:[a-zA-Z][a-zA-Z0-9]*|#(?:\d+|x[0-9a-fA-F]+));/
EntitiesMatchEnd(s, i) ==
    IF i + 1 > Len(s) \/ s[i] # "&" THEN 0
    ELSE LET e ==
               IF IsLetter(s[i + 1]) THEN SkipAlnum(s, i + 2)
               ELSE IF s[i + 1] # "#" \/ i + 2 > Len(s) THEN 0
               ELSE IF IsDigit(s[i + 2]) THEN SkipDigits(s, i + 3)
               ELSE IF s[i + 2] = "x" /\ i + 3 <= Len(s) /\ IsHex(s[i + 3])
                    THEN SkipHex(s, i + 4)
               ELSE 0
         IN  IF e # 0 /\ e <= Len(s) /\ s[e] = ";" THEN e ELSE 0

\* /:/
ColonMatchEnd(s, i) == IF i <= Len(s) /\ s[i] = ":" THEN i ELSE 0

MatchEnd(pattern, s, i) ==
    CASE pattern = "TAGS" -> TagsMatchEnd(s, i)
      [] pattern = "ENTITIES" -> EntitiesMatchEnd(s, i)
      [] pattern = "COLON" -> ColonMatchEnd(s, i)

Min(S) == CHOOSE x \in S : \A y \in S : x <= y

\* the first match at or after position i: <<start, end>>, or <<0, 0>>
SearchFrom(pattern, s, i) ==
    LET starts == {j \in i..Len(s) : MatchEnd(pattern, s, j) # 0}
    IN  IF starts = {} THEN <<0, 0>>
        ELSE <<Min(starts), MatchEnd(pattern, s, Min(starts))>>


\* RegExp.prototype.test of a pattern with the g flag: the search starts at
\* lastIndex; a match leaves lastIndex at its end, a failure resets it to 0
RegExpTest(pattern, s, lastIndex) ==
    IF lastIndex > Len(s) THEN [result |-> FALSE, lastIndex |-> 0]
    ELSE LET m == SearchFrom(pattern, s, lastIndex + 1)
         IN  IF m[1] = 0 THEN [result |-> FALSE, lastIndex |-> 0]
             ELSE [result |-> TRUE, lastIndex |-> m[2]]

-----------------------------------------------------------------------------
(* Patterns built from a source text (new RegExp(source, flags)) and       *)
(* String.prototype.replace with a replacement text                        *)

RegExpSpecialChars ==
    {".", "*", "+", "?", "^", "$", "{", "}", "(", ")", "|", "[", "]", "\\"}

RECURSIVE EscapeRegExp(_)
\* placeholder.replace(/[.*+?^${}()|[\]\\]/g, "\\$&")
EscapeRegExp(s) ==
    IF \A i \in 1..Len(s) : s[i] \notin RegExpSpecialChars THEN s
    ELSE (IF Head(s) \in RegExpSpecialChars THEN <<"\\", Head(s)>> ELSE <<Head(s)>>)
         \o EscapeRegExp(Tail(s))

RECURSIVE SourceMatch(_, _, _, _, _)
\* the source (literal characters and escaped characters) from position k on
\* against s from position i on: the position after the match, or 0
SourceMatch(source, ignoreCase, s, i, k) ==
    IF k > Len(source) THEN i
    ELSE LET esc == source[k] = "\\" /\ k + 1 <= Len(source)
             c == IF esc THEN source[k + 1] ELSE source[k]
             k2 == IF esc THEN k + 2 ELSE k + 1
         IN  IF i > Len(s) THEN 0
             ELSE IF (IF ignoreCase THEN Canonicalize(s[i]) = Canonicalize(c)
                      ELSE s[i] = c)
                  THEN SourceMatch(source, ignoreCase, s, i + 1, k2)
             ELSE 0

RECURSIVE GetSubstitution(_, _, _, _, _)
\* the replacement text with its $ patterns expanded, for the match that
\* covers positions start..end of str; the pattern has no capture groups, so
\* $1..$99 and $< stand for themselves
GetSubstitution(str, start, end, replacement, k) ==
    IF k > Len(replacement) THEN <<>>
    ELSE IF replacement[k] = "$" /\ k + 1 <= Len(replacement)
         THEN LET n == replacement[k + 1]
              IN  IF n = "$"
                  THEN <<"$">> \o GetSubstitution(str, start, end, replacement, k + 2)
                  ELSE IF n = "&"
                  THEN SubSeq(str, start, end)
                       \o GetSubstitution(str, start, end, replacement, k + 2)
                  ELSE IF n = "`"
                  THEN SubSeq(str, 1, start - 1)
                       \o GetSubstitution(str, start, end, replacement, k + 2)
                  ELSE IF n = "'"
                  THEN SubSeq(str, end + 1, Len(str))
                       \o GetSubstitution(str, start, end, replacement, k + 2)
                  ELSE <<"$">> \o GetSubstitution(str, start, end, replacement, k + 1)
    ELSE <<replacement[k]>> \o GetSubstitution(str, start, end, replacement, k + 1)

RECURSIVE ReplaceFrom(_, _, _, _, _)
\* the part of the result that comes from position i of str on: the matches
\* are looked for in str itself, left to right, never in a replacement
ReplaceFrom(str, source, ignoreCase, replacement, i) ==
    LET starts == {j \in i..Len(str) : SourceMatch(source, ignoreCase, str, j, 1) > j}
    IN  IF starts = {} THEN SubSeq(str, i, Len(str))
        ELSE LET j == Min(starts)
                 n == SourceMatch(source, ignoreCase, str, j, 1)
             IN  SubSeq(str, i, j - 1)
                 \o GetSubstitution(str, j, n - 1, replacement, 1)
                 \o ReplaceFrom(str, source, ignoreCase, replacement, n)

\* str.replace(new RegExp(source, "g" or "gi"), replacement)
StringReplaceAll(str, source, ignoreCase, replacement) ==
    ReplaceFrom(str, source, ignoreCase, replacement, 1)

-----------------------------------------------------------------------------
(* The preservation record and the placeholders *)

PLACEHOLDER_PREFIX == <<"U+0126", "U+0110", "U+0141", "X", "U+0126">>
PLACEHOLDER_SUFFIX == <<"U+0126", "U+0110", "U+0141", "X", "U+0126">>

DigitChars == <<"0", "1", "2", "3", "4", "5", "6", "7", "8", "9">>

RECURSIVE NumberToString(_)
\* counter.toString()
NumberToString(n) ==
    IF n < 10 THEN <<DigitChars[n + 1]>>
    ELSE NumberToString(n \div 10) \o <<DigitChars[(n % 10) + 1]>>

RECURSIVE PadStart(_, _, _)

\* a fixed-width ordinal: only the last width characters are kept, so the
\* ordinal wraps
PadStartTruncating(s, width, c) ==
    LET padded == [k \in 1..width |-> c] \o s
    IN  SubSeq(padded, Len(padded) - width + 1, Len(padded))

\* s.padStart(width, c)
PadStart(s, width, c) ==
    IF Len(s) >= width THEN s ELSE PadStart(<<c>> \o s, width, c)

\* a map that iterates its entries newest first
MapSetPrepending(entries, key, value) == <<<<key, value>>>> \o entries

\* Map.prototype.set on the list of <<key, value>> entries kept in insertion
\* order: a key already present keeps its place and takes the new value
MapSet(entries, key, value) ==
    IF \E i \in 1..Len(entries) : entries[i][1] = key
    THEN [i \in 1..Len(entries) |->
            IF entries[i][1] = key THEN <<key, value>> ELSE entries[i]]
    ELSE Append(entries, <<key, value>>)

EmptyPreserved == [placeholders |-> <<>>, counter |-> 0]

\* a token format with colons in its delimiters
PlaceholderWithColons(counter) ==
    <<"_", ":">> \o PadStart(NumberToString(counter), 3, "0") \o <<":", "_">>

PlaceholderOf(counter) ==
    PLACEHOLDER_PREFIX \o PadStart(NumberToString(counter), 3, "0") \o PLACEHOLDER_SUFFIX

\* createPlaceholder without preserved.counter++
createPlaceholderKeepingCounter(content, p) ==
    [placeholder |-> PlaceholderOf(p.counter),
     preserved |-> [placeholders |-> MapSet(p.placeholders, PlaceholderOf(p.counter), content),
                    counter |-> p.counter]]

\* createPlaceholder(content, preserved): the placeholder returned and the
\* record as the call leaves it
createPlaceholder(content, p) ==
    LET placeholder == PlaceholderOf(p.counter)
    IN  [placeholder |-> placeholder,
         preserved |-> [placeholders |-> MapSet(p.placeholders, placeholder, content),
                        counter |-> p.counter + 1]]

RECURSIVE ReplaceWithPlaceholders(_, _, _, _)

\* ReplaceWithPlaceholders losing the text that follows the last match
ReplaceDroppingTail(pattern, s, i, acc) ==
    LET m == SearchFrom(pattern, s, i)
    IN  IF m[1] = 0 THEN acc
        ELSE LET c == createPlaceholder(SubSeq(s, m[1], m[2]), acc.preserved)
             IN  ReplaceWithPlaceholders(pattern, s, m[2] + 1,
                     [processedText |-> acc.processedText \o SubSeq(s, i, m[1] - 1)
                                        \o c.placeholder,
                      preserved |-> c.preserved])

\* ReplaceWithPlaceholders with a pattern that lacks the g flag: only the
\* first match is replaced
ReplaceFirstMatchOnly(pattern, s, i, acc) ==
    LET m == SearchFrom(pattern, s, i)
    IN  IF m[1] = 0
        THEN [acc EXCEPT !.processedText = @ \o SubSeq(s, i, Len(s))]
        ELSE LET c == createPlaceholder(SubSeq(s, m[1], m[2]), acc.preserved)
             IN  [processedText |-> acc.processedText \o SubSeq(s, i, m[1] - 1)
                                    \o c.placeholder \o SubSeq(s, m[2] + 1, Len(s)),
                  preserved |-> c.preserved]

\* processedText.replace(pattern, (match) => createPlaceholder(match, preserved))
\* from position i on; acc is the text built so far and the record
ReplaceWithPlaceholders(pattern, s, i, acc) ==
    LET m == SearchFrom(pattern, s, i)
    IN  IF m[1] = 0
        THEN [acc EXCEPT !.processedText = @ \o SubSeq(s, i, Len(s))]
        ELSE LET c == createPlaceholder(SubSeq(s, m[1], m[2]), acc.preserved)
             IN  ReplaceWithPlaceholders(pattern, s, m[2] + 1,
                     [processedText |-> acc.processedText \o SubSeq(s, i, m[1] - 1)
                                        \o c.placeholder,
                      preserved |-> c.preserved])

PreservePass(pattern, acc) ==
    ReplaceWithPlaceholders(pattern, acc.processedText, 1,
        [processedText |-> <<>>, preserved |-> acc.preserved])

\* the passes in another order: entities, then tags, then colons
preserveEntitiesFirst(t) ==
    PreservePass("COLON",
        PreservePass("TAGS",
            PreservePass("ENTITIES", [processedText |-> t, preserved |-> EmptyPreserved])))

\* preserveHtmlContent(text): tags, then entities, then colons
preserveHtmlContent(t) ==
    PreservePass("COLON",
        PreservePass("ENTITIES",
            PreservePass("TAGS", [processedText |-> t, preserved |-> EmptyPreserved])))

RECURSIVE RestoreEntries(_, _, _)

RECURSIVE RestoreEntriesStoppingAtHit(_, _, _)
\* a loop that returns after the first entry whose token it has found
RestoreEntriesStoppingAtHit(restored, entries, k) ==
    IF k > Len(entries) THEN restored
    ELSE LET replaced == StringReplaceAll(restored, EscapeRegExp(entries[k][1]),
                                          TRUE, entries[k][2])
         IN  IF replaced # restored
             THEN replaced
             ELSE RestoreEntriesStoppingAtHit(replaced, entries, k + 1)

RECURSIVE RestoreEntriesFailingOnAbsent(_, _, _)
\* a loop that gives up, with an empty text, at the first token of the
\* record that the text does not hold
RestoreEntriesFailingOnAbsent(restored, entries, k) ==
    IF k > Len(entries) THEN restored
    ELSE LET replaced == StringReplaceAll(restored, EscapeRegExp(entries[k][1]),
                                          TRUE, entries[k][2])
         IN  IF replaced = restored /\ entries[k][1] # entries[k][2]
             THEN <<>>
             ELSE RestoreEntriesFailingOnAbsent(replaced, entries, k + 1)

\* the loop over preserved.placeholders, from entry k on
RestoreEntries(restored, entries, k) ==
    IF k > Len(entries) THEN restored
    ELSE RestoreEntries(
             StringReplaceAll(restored, EscapeRegExp(entries[k][1]), TRUE, entries[k][2]),
             entries, k + 1)

\* the cleanup with a pattern that lacks the g flag: only the first
\* full-width colon is rewritten
FixFirstChineseColon(s) ==
    LET starts == {j \in 1..Len(s) : s[j] = FULLWIDTH_COLON}
    IN  IF starts = {} THEN s
        ELSE SubSeq(s, 1, Min(starts) - 1) \o <<":">> \o SubSeq(s, Min(starts) + 1, Len(s))

\* the cleanup restoredText.replace(/U+FF1A/g, ":")
FixChineseColons(s) == StringReplaceAll(s, <<FULLWIDTH_COLON>>, FALSE, <<":">>)

\* restoreHtmlContent(translatedText, preserved)
restoreHtmlContent(translated, p) ==
    FixChineseColons(RestoreEntries(translated, p.placeholders, 1))

\* a decoder that deletes every entry of the record once it has restored it
RecordConsumedByRestore(translated, p) == [p EXCEPT !.placeholders = <<>>]

\* the record as restoreHtmlContent(translatedText, preserved) leaves it:
\* the loop reads the entries, and no statement of the function writes to
\* preserved.placeholders or preserved.counter
RecordAfterRestore(translated, p) == p

\* the names of SAFE_TAGS, in the order of its alternation
SAFE_TAG_NAMES ==
    <<<<"s", "t", "r", "o", "n", "g">>, <<"b">>, <<"e", "m">>, <<"i">>, <<"u">>,
      <<"c", "o", "d", "e">>, <<"p", "r", "e">>, <<"s", "p", "a", "n">>,
      <<"d", "i", "v">>, <<"p">>, <<"b", "r">>, <<"h", "r">>>>

\* SAFE_TAGS without the i flag
SafeTagsTestCaseSensitive(m) ==
    /\ Len(m) >= 1
    /\ m[1] = "<"
    /\ LET n == IF Len(m) >= 2 /\ m[2] = "/" THEN 3 ELSE 2
       IN  \E k \in 1..Len(SAFE_TAG_NAMES) :
              LET e == SourceMatch(SAFE_TAG_NAMES[k], FALSE, m, n, 1)
              IN  e # 0 /\ AttributesMatchEnd(m, e) # 0

\* SAFE_TAGS.test(match):
\* /^<\/?(?:strong|b|em|i|u|code|pre|span|div|p|br|hr)(?:\s+[^>]*)?>/i
SafeTagsTest(m) ==
    /\ Len(m) >= 1
    /\ m[1] = "<"
    /\ LET n == IF Len(m) >= 2 /\ m[2] = "/" THEN 3 ELSE 2
       IN  \E k \in 1..Len(SAFE_TAG_NAMES) :
              LET e == SourceMatch(SAFE_TAG_NAMES[k], TRUE, m, n, 1)
              IN  e # 0 /\ AttributesMatchEnd(m, e) # 0

RECURSIVE SanitizeFrom(_, _)
\* text.replace(HTML_PATTERNS.TAGS, (match) => SAFE_TAGS.test(match) ? match : "")
\* from position i on
SanitizeFrom(s, i) ==
    LET m == SearchFrom("TAGS", s, i)
    IN  IF m[1] = 0 THEN SubSeq(s, i, Len(s))
        ELSE SubSeq(s, i, m[1] - 1)
             \o (IF SafeTagsTest(SubSeq(s, m[1], m[2])) THEN SubSeq(s, m[1], m[2])
                 ELSE <<>>)
             \o SanitizeFrom(s, m[2] + 1)

\* sanitizeHtmlContent(text)
sanitizeHtmlContent(t) == SanitizeFrom(t, 1)

-----------------------------------------------------------------------------
(* The texts of the requests: every concatenation of at most MaxPieces     *)
(* pieces of one of two families, and the texts of the repository's tests  *)

MaxPieces == 3

PreservePieces ==
    { <<"<", "b", ">">>,            \* a tag
      <<"<", "a", " ">>,            \* the start of a tag with attributes
      <<">">>,
      <<"$", "&">>,                 \* a replacement pattern of String.replace
      <<"&", "a", ";">>,            \* an entity
      <<":">>,
      <<FULLWIDTH_COLON>> }

SanitizePieces ==
    { <<"<", "s", "c", "r", "i", "p", "t">>,
      <<">">>,
      <<"<", "x", ">">>,            \* a tag outside the allow-list
      <<"<", "B", " ", "i", ">">>,  \* an allow-listed tag with attributes
      <<"y">> }

RECURSIVE TextsOf(_, _)
TextsOf(pieces, n) ==
    IF n = 0 THEN {<<>>}
    ELSE LET shorter == TextsOf(pieces, n - 1)
         IN  shorter \cup {t \o piece : t \in shorter, piece \in pieces}

\* "<strong>A</strong>: <code>B</code>"
ExampleText ==
    <<"<", "s", "t", "r", "o", "n", "g", ">", "A",
      "<", "/", "s", "t", "r", "o", "n", "g", ">", ":", " ",
      "<", "c", "o", "d", "e", ">", "B", "<", "/", "c", "o", "d", "e", ">">>

\* "<script>x</script><strong>y</strong>"
SanitizeExampleText ==
    <<"<", "s", "c", "r", "i", "p", "t", ">", "x",
      "<", "/", "s", "c", "r", "i", "p", "t", ">",
      "<", "s", "t", "r", "o", "n", "g", ">", "y",
      "<", "/", "s", "t", "r", "o", "n", "g", ">">>

Texts ==
    TextsOf(PreservePieces, MaxPieces) \cup TextsOf(SanitizePieces, MaxPieces)
    \cup {ExampleText, SanitizeExampleText}

\* every second letter of s in lower case
MixedCase(s) ==
    [i \in 1..Len(s) |-> IF i % 2 = 0 THEN ToLowerChar(s[i]) ELSE s[i]]

\* what the external transformation may hand back for an encoded text: the
\* text itself, its placeholders in another letter casing, the text twice
\* around a full-width colon of its own, or a text without any placeholder
Translations(encoded) ==
    { encoded,
      ToLowerCase(encoded),
      MixedCase(encoded),
      encoded \o <<FULLWIDTH_COLON>> \o encoded,
      <<"b", FULLWIDTH_COLON, "b", FULLWIDTH_COLON>> }

-----------------------------------------------------------------------------
(* The calls.  The variables hold the arguments and the result of the last *)
(* call; the result of preserveHtmlContent is kept for the                 *)
(* restoreHtmlContent calls that follow it.                                *)

Init ==
    /\ text \in Texts
    /\ tagsLastIndex = 0
    /\ entitiesLastIndex = 0
    /\ op = "init"
    /\ detected = FALSE
    /\ processedText = <<>>
    /\ preserved = EmptyPreserved
    /\ translatedText = <<>>
    /\ restoredText = <<>>
    /\ sanitizedText = <<>>
    /\ cycles = <<>>
    /\ minting = <<>>
    /\ ms = <<>>
    /\ history = <<>>

\* containsHtmlContent(text):
\* HTML_PATTERNS.TAGS.test(text) || HTML_PATTERNS.ENTITIES.test(text)
ContainsHtmlContent ==
    LET tags == RegExpTest("TAGS", text, tagsLastIndex)
        entities == RegExpTest("ENTITIES", text, entitiesLastIndex)
    IN  /\ op' = "containsHtmlContent"
        /\ tagsLastIndex' = tags.lastIndex
        /\ entitiesLastIndex' = IF tags.result THEN entitiesLastIndex
                                ELSE entities.lastIndex
        /\ detected' = (tags.result \/ entities.result)
        /\ processedText' = <<>>
        /\ preserved' = EmptyPreserved
        /\ translatedText' = <<>>
        /\ restoredText' = <<>>
        /\ sanitizedText' = <<>>
        /\ UNCHANGED <<text, cycles, minting, ms, history>>

\* preserveHtmlContent(text); String.prototype.replace with a g pattern
\* starts at lastIndex 0 and leaves lastIndex 0
PreserveHtmlContent ==
    LET r == preserveHtmlContent(text)
    IN  /\ op' = "preserveHtmlContent"
        /\ processedText' = r.processedText
        /\ preserved' = r.preserved
        /\ tagsLastIndex' = 0
        /\ entitiesLastIndex' = 0
        /\ detected' = FALSE
        /\ translatedText' = <<>>
        /\ restoredText' = <<>>
        /\ sanitizedText' = <<>>
        /\ UNCHANGED <<text, cycles, minting, ms, history>>

\* restoreHtmlContent(translated, preserved) with the record of the
\* preserveHtmlContent call of this request
RestoreHtmlContent ==
    /\ op \in {"preserveHtmlContent", "restoreHtmlContent"}
    /\ \E translated \in Translations(processedText) :
          /\ translatedText' = translated
          /\ restoredText' = restoreHtmlContent(translated, preserved)
          /\ preserved' = RecordAfterRestore(translated, preserved)
    /\ op' = "restoreHtmlContent"
    /\ detected' = FALSE
    /\ sanitizedText' = <<>>
    /\ UNCHANGED <<text, tagsLastIndex, entitiesLastIndex, processedText>>
    /\ UNCHANGED <<cycles, minting, ms, history>>

\* sanitizeHtmlContent(text)
SanitizeHtmlContent ==
    /\ op' = "sanitizeHtmlContent"
    /\ sanitizedText' = sanitizeHtmlContent(text)
    /\ tagsLastIndex' = 0
    /\ detected' = FALSE
    /\ processedText' = <<>>
    /\ preserved' = EmptyPreserved
    /\ translatedText' = <<>>
    /\ restoredText' = <<>>
    /\ UNCHANGED <<text, entitiesLastIndex, cycles, minting, ms, history>>

Next ==
    \/ ContainsHtmlContent
    \/ PreserveHtmlContent
    \/ RestoreHtmlContent
    \/ SanitizeHtmlContent

Spec == Init /\ [][Next]_vars

-----------------------------------------------------------------------------
(* Properties *)

HasTagMatch(s) == \E i \in 1..Len(s) : TagsMatchEnd(s, i) # 0
HasEntityMatch(s) == \E i \in 1..Len(s) : EntitiesMatchEnd(s, i) # 0
HasColon(s) == \E i \in 1..Len(s) : s[i] = ":"
HasFullwidthColon(s) == \E i \in 1..Len(s) : s[i] = FULLWIDTH_COLON

\* s with each full-width colon rewritten in place to the ASCII colon
WithAsciiColons(s) ==
    [i \in 1..Len(s) |-> IF s[i] = FULLWIDTH_COLON THEN ":" ELSE s[i]]

\* the restore call got the encoded text back unchanged (identity transform)
RestoredUnchangedEncoding ==
    op = "restoreHtmlContent" /\ translatedText = processedText

\* C1: round trip under the identity transform: for every text, restoring
\* the unchanged processedText with its record returns exactly the text.
C1_RoundTripIdentity ==
    RestoredUnchangedEncoding => restoredText = text

\* no tag, no entity and no ASCII colon in the text
Degenerate(s) == ~HasTagMatch(s) /\ ~HasEntityMatch(s) /\ ~HasColon(s)

\* C2 as stated: on a text without tag, entity and ASCII colon,
\* preserveHtmlContent returns the text and an empty record, and
\* restoreHtmlContent of that text with that record returns the text.
C2_DegeneratePassThrough ==
    Degenerate(text) =>
        /\ op \in {"preserveHtmlContent", "restoreHtmlContent"} =>
              processedText = text /\ preserved = EmptyPreserved
        /\ RestoredUnchangedEncoding => restoredText = text

\* C2 amended: on a text without tag, entity and ASCII colon,
\* preserveHtmlContent returns the text and an empty record;
\* restoreHtmlContent of that text with that record returns the text with
\* each full-width colon rewritten to ":", hence the text itself when it
\* holds no full-width colon.
C2_DegeneratePassThroughAmended ==
    Degenerate(text) =>
        /\ op \in {"preserveHtmlContent", "restoreHtmlContent"} =>
              processedText = text /\ preserved = EmptyPreserved
        /\ RestoredUnchangedEncoding =>
              /\ restoredText = WithAsciiColons(text)
              /\ ~HasFullwidthColon(text) => restoredText = text

C2_Witness ==
    /\ RestoredUnchangedEncoding
    /\ Degenerate(text)
    /\ ~HasFullwidthColon(text)
    /\ Len(text) > 1
    /\ restoredText = text

\* C3: no leakage: the processedText of preserveHtmlContent holds no tag
\* match, no entity match and no ASCII colon, whatever surrounds the
\* placeholders.
C3_NoLeakage ==
    op = "preserveHtmlContent" =>
        /\ ~HasTagMatch(processedText)
        /\ ~HasEntityMatch(processedText)
        /\ ~HasColon(processedText)

\* a text with a tag and an entity or a colon has been encoded, and a raw
\* "<" of an unfinished tag is left among the placeholders
C3_Witness ==
    /\ op = "preserveHtmlContent"
    /\ HasTagMatch(text)
    /\ HasEntityMatch(text) \/ HasColon(text)
    /\ preserved.counter >= 2
    /\ \E i \in 1..Len(processedText) : processedText[i] = "<"

\* C4: detector correctness: every containsHtmlContent call returns TRUE
\* iff the text holds a tag match or an entity match.
C4_DetectorCorrect ==
    op = "containsHtmlContent" => (detected <=> (HasTagMatch(text) \/ HasEntityMatch(text)))

\* C5: the scan positions of the shared TAGS and ENTITIES patterns are 0
\* before and after every call.
C5_LastIndexZero ==
    tagsLastIndex = 0 /\ entitiesLastIndex = 0

\* the allow-list of the sanitizer
AllowList == {SAFE_TAG_NAMES[k] : k \in 1..Len(SAFE_TAG_NAMES)}

\* the tag name, in lower case, of the tag match that starts at position i
TagNameAt(s, i) ==
    LET n == IF s[i + 1] = "/" THEN i + 2 ELSE i + 1
    IN  ToLowerCase(SubSeq(s, n, SkipAlnum(s, n + 1) - 1))

\* C6: the output of sanitizeHtmlContent holds no tag match whose name is
\* outside the allow-list.
C6_NoUnsafeTagLeft ==
    op = "sanitizeHtmlContent" =>
        \A i \in 1..Len(sanitizedText) :
            TagsMatchEnd(sanitizedText, i) # 0 => TagNameAt(sanitizedText, i) \in AllowList

RECURSIVE ScanMatches(_, _)
\* the tag matches of a left-to-right scan from position i: <<start, end>>
ScanMatches(s, i) ==
    LET m == SearchFrom("TAGS", s, i)
    IN  IF m[1] = 0 THEN {} ELSE {m} \cup ScanMatches(s, m[2] + 1)

\* the positions covered by a scanned tag match with a name off the allow-list
UnsafePositions(s) ==
    {i \in 1..Len(s) :
        \E m \in ScanMatches(s, 1) :
            m[1] <= i /\ i <= m[2] /\ TagNameAt(s, m[1]) \notin AllowList}

\* s without the characters at the positions of D, the others in order
Without(s, D) ==
    LET K == (1..Len(s)) \ D
    IN  [j \in 1..Cardinality(K) |->
            s[CHOOSE i \in K : Cardinality({k \in K : k <= i}) = j]]

\* C7: sanitizeHtmlContent deletes exactly the tag matches with a name off
\* the allow-list (letter case ignored) and keeps every other character in
\* place and in order.
C7_SanitizerKeepsTheRest ==
    op = "sanitizeHtmlContent" => sanitizedText = Without(text, UnsafePositions(text))

\* a text with an upper-case allow-listed tag carrying attributes and a tag
\* off the allow-list has been sanitized: the first is kept, the second gone
C7_Witness ==
    /\ op = "sanitizeHtmlContent"
    /\ sanitizedText # text
    /\ \E m \in ScanMatches(text, 1) :
          /\ TagNameAt(text, m[1]) \in AllowList
          /\ SubSeq(text, m[1] + 1, m[1] + 1) # ToLowerCase(SubSeq(text, m[1] + 1, m[1] + 1))
          /\ m[2] - m[1] >= 4
    /\ HasTagMatch(sanitizedText)
    /\ \E i \in 1..Len(sanitizedText) : sanitizedText[i] = "y"

RECURSIVE LiteralReplaceFrom(_, _, _, _)
\* str from position i on, each occurrence of token in any letter casing
\* replaced by original, character for character
LiteralReplaceFrom(str, token, original, i) ==
    LET starts == {j \in i..(Len(str) - Len(token) + 1) :
                      ToUpperCase(SubSeq(str, j, j + Len(token) - 1)) = ToUpperCase(token)}
    IN  IF starts = {} THEN SubSeq(str, i, Len(str))
        ELSE SubSeq(str, i, Min(starts) - 1) \o original
             \o LiteralReplaceFrom(str, token, original, Min(starts) + Len(token))

RECURSIVE LiteralRestore(_, _, _)
LiteralRestore(str, entries, k) ==
    IF k > Len(entries) THEN str
    ELSE LiteralRestore(LiteralReplaceFrom(str, entries[k][1], entries[k][2], 1),
                        entries, k + 1)

\* C8: case-insensitive restore: every occurrence of a token of the record,
\* in any letter casing and at any number of positions of the transformed
\* text, is replaced by the original fragment recorded for it (the
\* full-width colon repair that ends the call apart).
C8_CaseInsensitiveRestore ==
    (op = "restoreHtmlContent" /\ preserved.counter > 0) =>
        restoredText = WithAsciiColons(LiteralRestore(translatedText, preserved.placeholders, 1))

\* C9: full-width colon repair: the text returned by restoreHtmlContent
\* holds no full-width colon, and each full-width colon of the transformed
\* text came out as ":" where it stood: the result is that of restoring the
\* transformed text with its full-width colons already written as ":".
C9_FullwidthColonRepair ==
    op = "restoreHtmlContent" =>
        /\ ~HasFullwidthColon(restoredText)
        /\ restoredText = restoreHtmlContent(WithAsciiColons(translatedText), preserved)

\* a transformed text with placeholders and two full-width colons of its own
\* has been restored
C9_Witness ==
    /\ op = "restoreHtmlContent"
    /\ preserved.counter > 0
    /\ Cardinality({i \in 1..Len(translatedText) : translatedText[i] = FULLWIDTH_COLON}) >= 2
    /\ HasColon(restoredText)

\* the number of places of s where a placeholder of the record stands
PlaceholderOccurrences(s, entries) ==
    Cardinality({i \in 1..Len(s) :
        \E k \in 1..Len(entries) :
            /\ i + Len(entries[k][1]) - 1 <= Len(s)
            /\ SubSeq(s, i, i + Len(entries[k][1]) - 1) = entries[k][1]})

HasChar(s, c) == \E i \in 1..Len(s) : s[i] = c

\* what C10 says of the encoding apart from the number of tokens, and of
\* the decoding
ExampleEncodedAndRestored(tokens) ==
    /\ (text = ExampleText /\ op = "preserveHtmlContent") =>
          /\ PlaceholderOccurrences(processedText, preserved.placeholders) = tokens
          /\ Len(preserved.placeholders) = tokens
          /\ preserved.counter = tokens
          /\ ~HasChar(processedText, "<")
          /\ ~HasChar(processedText, ":")
    /\ (text = ExampleText /\ RestoredUnchangedEncoding) => restoredText = text

\* C10 as stated: "<strong>A</strong>: <code>B</code>" is encoded with
\* exactly three tokens and no raw "<" or ":", and decoding the unchanged
\* encoded text returns it.
C10_ExampleThreeTokens == ExampleEncodedAndRestored(3)

\* C10 amended: "<strong>A</strong>: <code>B</code>" is encoded with exactly
\* five tokens (one per opening and closing tag, one for the colon) and no
\* raw "<" or ":", and decoding the unchanged encoded text returns it.
C10_ExampleFiveTokens == ExampleEncodedAndRestored(5)

C10_Witness ==
    /\ text = ExampleText
    /\ RestoredUnchangedEncoding
    /\ restoredText = ExampleText
    /\ preserved.counter = 5

\* sub stands somewhere in s
Occurs(s, sub) ==
    \E i \in 1..(Len(s) - Len(sub) + 1) : SubSeq(s, i, i + Len(sub) - 1) = sub

\* "__DEEPLX_PRESERVE_", the placeholder text the repository's tests expect
DEEPLX_PRESERVE ==
    <<"_", "_", "D", "E", "E", "P", "L", "X", "_",
      "P", "R", "E", "S", "E", "R", "V", "E", "_">>

\* C11: whenever the text holds a tag or an ASCII colon, the processedText
\* of preserveHtmlContent holds "__DEEPLX_PRESERVE_".
C11_TestPlaceholderFormat ==
    (op = "preserveHtmlContent" /\ (HasTagMatch(text) \/ HasColon(text))) =>
        Occurs(processedText, DEEPLX_PRESERVE)

(***************************************************************************)
(* Two requests, each running its own encode/decode cycle.  The calls are  *)
(* synchronous, so they interleave call by call; the requests share only   *)
(* the module's HTML_PATTERNS objects and their lastIndex.                 *)
(***************************************************************************)

\* String.prototype.replace with a g pattern sets the pattern's lastIndex
\* to 0 before its first match, whatever an earlier test() left there
ReplaceLastIndexKept(lastIndex) == lastIndex

ReplaceLastIndex(lastIndex) == 0

\* one replace pass of preserveHtmlContent on a pattern whose lastIndex
\* the module shares between calls
PreservePassFrom(pattern, acc, lastIndex) ==
    LET start == ReplaceLastIndex(lastIndex)
    IN  IF start > Len(acc.processedText)
        THEN acc    \* a search that starts past the end finds nothing
        ELSE ReplaceWithPlaceholders(pattern, acc.processedText, start + 1,
                 [processedText |-> SubSeq(acc.processedText, 1, start),
                  preserved |-> acc.preserved])

\* preserveHtmlContent(text) called while HTML_PATTERNS.TAGS and
\* HTML_PATTERNS.ENTITIES hold the given lastIndex; the colon pattern is a
\* literal of the call, a new object every time
preserveHtmlContentFrom(t, tagsIndex, entitiesIndex) ==
    PreservePassFrom("COLON",
        PreservePassFrom("ENTITIES",
            PreservePassFrom("TAGS",
                [processedText |-> t, preserved |-> EmptyPreserved], tagsIndex),
            entitiesIndex),
        0)

Requests == {1, 2}

MaxCyclePieces == 2

CyclePieces == { <<"<", "b", ">">>, <<"&", "a", ";">>, <<":">> }

CycleTexts == TextsOf(CyclePieces, MaxCyclePieces)

\* what the translation step hands back to a request
CycleTranslations(encoded) == {encoded, ToLowerCase(encoded)}

CycleInit ==
    /\ cycles \in [Requests ->
                     {[text |-> t, pc |-> "start", processedText |-> <<>>,
                       preserved |-> EmptyPreserved, translatedText |-> <<>>,
                       restoredText |-> <<>>] : t \in CycleTexts}]
    /\ tagsLastIndex = 0
    /\ entitiesLastIndex = 0
    /\ text = <<>>
    /\ op = "init"
    /\ detected = FALSE
    /\ processedText = <<>>
    /\ preserved = EmptyPreserved
    /\ translatedText = <<>>
    /\ restoredText = <<>>
    /\ sanitizedText = <<>>
    /\ minting = <<>>
    /\ ms = <<>>
    /\ history = <<>>

\* request r asks containsHtmlContent(text) before it starts its cycle
CycleDetect(r) ==
    /\ cycles[r].pc = "start"
    /\ LET tags == RegExpTest("TAGS", cycles[r].text, tagsLastIndex)
           entities == RegExpTest("ENTITIES", cycles[r].text, entitiesLastIndex)
       IN  /\ tagsLastIndex' = tags.lastIndex
           /\ entitiesLastIndex' =
                  IF tags.result THEN entitiesLastIndex ELSE entities.lastIndex
    /\ UNCHANGED <<cycles, callVars, minting, ms, history>>

\* request r calls preserveHtmlContent(text)
CycleEncode(r) ==
    /\ cycles[r].pc = "start"
    /\ LET e == preserveHtmlContentFrom(cycles[r].text, tagsLastIndex, entitiesLastIndex)
       IN  cycles' = [cycles EXCEPT ![r].pc = "encoded",
                                    ![r].processedText = e.processedText,
                                    ![r].preserved = e.preserved]
    /\ tagsLastIndex' = 0
    /\ entitiesLastIndex' = 0
    /\ UNCHANGED <<callVars, minting, ms, history>>

\* request r calls restoreHtmlContent on the translation of its own
\* processedText, with its own record
CycleDecode(r) ==
    /\ cycles[r].pc = "encoded"
    /\ \E translated \in CycleTranslations(cycles[r].processedText) :
           cycles' = [cycles EXCEPT ![r].pc = "decoded",
                                    ![r].translatedText = translated,
                                    ![r].restoredText =
                                        restoreHtmlContent(translated, cycles[r].preserved),
                                    ![r].preserved =
                                        RecordAfterRestore(translated, cycles[r].preserved)]
    /\ UNCHANGED <<patternVars, callVars, minting, ms, history>>

CycleNext ==
    \E r \in Requests :
        \/ CycleDetect(r)
        \/ CycleEncode(r)
        \/ CycleDecode(r)

SpecCycles == CycleInit /\ [][CycleNext]_vars

\* C12: with the calls of two requests interleaved in any order, each
\* request's record, processedText and restored text are the ones it gets
\* when it runs alone; so no call of the other request adds to or changes
\* its record.
C12_IndependentCycles ==
    \A r \in Requests :
        LET alone == preserveHtmlContent(cycles[r].text)
        IN  /\ cycles[r].pc \in {"encoded", "decoded"} =>
                   /\ cycles[r].preserved = alone.preserved
                   /\ cycles[r].processedText = alone.processedText
            /\ cycles[r].pc = "decoded" =>
                   cycles[r].restoredText =
                       restoreHtmlContent(cycles[r].translatedText, alone.preserved)

\* request 1 is between its encode and its decode with a record of two
\* entries, and request 2 is about to encode while the shared tag pattern
\* holds a stale lastIndex
C12_Witness ==
    /\ cycles # <<>>
    /\ cycles[1].pc = "encoded"
    /\ cycles[1].preserved.counter = 2
    /\ cycles[2].pc = "start"
    /\ HasTagMatch(cycles[2].text)
    /\ tagsLastIndex > 0

(***************************************************************************)
(* One preserveHtmlContent call taken one createPlaceholder call at a      *)
(* time: the states between two tokens of a replace pass are states of     *)
(* this specification.                                                     *)
(***************************************************************************)

MaxFragments == 1001

\* a text of MaxFragments colons, one token each
LongText == [k \in 1..MaxFragments |-> ":"]

MintTexts == CycleTexts \cup {ExampleText, LongText}

NextPass(pass) ==
    CASE pass = "TAGS" -> "ENTITIES"
      [] pass = "ENTITIES" -> "COLON"
      [] OTHER -> "done"

\* the call on one of the texts has allocated its record and is about to
\* start the tag pass
MintInitOf(texts) ==
    /\ minting \in {[text |-> t, pass |-> "TAGS", s |-> t, i |-> 1,
                     processedText |-> <<>>, preserved |-> EmptyPreserved,
                     calls |-> 0] : t \in texts}
    /\ tagsLastIndex = 0
    /\ entitiesLastIndex = 0
    /\ text = <<>>
    /\ op = "init"
    /\ detected = FALSE
    /\ processedText = <<>>
    /\ preserved = EmptyPreserved
    /\ translatedText = <<>>
    /\ restoredText = <<>>
    /\ sanitizedText = <<>>
    /\ cycles = <<>>
    /\ ms = <<>>
    /\ history = <<>>

\* the running pass finds its next match and the callback mints a token
MintToken ==
    /\ minting.pass # "done"
    /\ LET m == SearchFrom(minting.pass, minting.s, minting.i)
       IN  /\ m[1] # 0
           /\ LET c == createPlaceholder(SubSeq(minting.s, m[1], m[2]), minting.preserved)
              IN  minting' = [minting EXCEPT
                      !.i = m[2] + 1,
                      !.processedText = @ \o SubSeq(minting.s, minting.i, m[1] - 1)
                                          \o c.placeholder,
                      !.preserved = c.preserved,
                      !.calls = @ + 1]
    /\ UNCHANGED <<patternVars, callVars, cycles, ms, history>>

\* the running pass finds no further match: replace returns, and the next
\* pass starts on its result
EndPass ==
    /\ minting.pass # "done"
    /\ SearchFrom(minting.pass, minting.s, minting.i)[1] = 0
    /\ LET result == minting.processedText
                         \o SubSeq(minting.s, minting.i, Len(minting.s))
       IN  minting' = [minting EXCEPT
               !.pass = NextPass(minting.pass),
               !.s = result,
               !.i = 1,
               !.processedText = IF NextPass(minting.pass) = "done" THEN result ELSE <<>>]
    /\ UNCHANGED <<patternVars, callVars, cycles, ms, history>>

MintNext == MintToken \/ EndPass

\* the calls on the short texts and on the long one
MintInit == MintInitOf(MintTexts)

SpecMint == MintInit /\ [][MintNext]_vars

\* the calls on the texts of Spec
MintInitTexts == MintInitOf(Texts)

SpecMintTexts == MintInitTexts /\ [][MintNext]_vars

\* the keys of the record's entries
KeysOf(p) == {p.placeholders[k][1] : k \in 1..Len(p.placeholders)}

\* C13: in every state during and after preserveHtmlContent the counter is
\* the number of tokens minted so far (0 before the first) and the number
\* of entries of placeholders, and the keys are pairwise distinct: entry k
\* has the token of ordinal k - 1, and the tokens of the ordinals up to
\* MaxFragments, past 1000, are all different.  Every step leaves the
\* counter as it is or adds 1, adding 1 exactly when a token is minted.
C13_CounterInvariant ==
    /\ [](/\ minting.preserved.counter = minting.calls
          /\ minting.preserved.counter = Len(minting.preserved.placeholders)
          /\ Cardinality(KeysOf(minting.preserved)) = Len(minting.preserved.placeholders)
          /\ \A k \in 1..Len(minting.preserved.placeholders) :
                 minting.preserved.placeholders[k][1] = PlaceholderOf(k - 1)
          /\ minting.calls = 0 =>
                 Cardinality({PlaceholderOf(n) : n \in 0..MaxFragments}) = MaxFragments + 1)
    /\ [][/\ minting'.preserved.counter \in
                 {minting.preserved.counter, minting.preserved.counter + 1}
          /\ (minting'.preserved.counter = minting.preserved.counter + 1)
                 <=> (minting'.calls = minting.calls + 1)]_vars

\* the call on the example text is inside its colon pass: four tag tokens
\* from the finished tag pass and the colon token just minted
C13_Witness ==
    /\ minting.text = ExampleText
    /\ minting.pass = "COLON"
    /\ minting.i > 1
    /\ minting.preserved.counter = 5

\* C14: a restoreHtmlContent call leaves the record, its entries in their
\* order and its counter, exactly as it found it; so a second call with
\* the same record and the same text returns the same text.
C14_DecoderKeepsRecord ==
    [][op' = "restoreHtmlContent" =>
          /\ preserved' = preserved
          /\ (op = "restoreHtmlContent" /\ translatedText' = translatedText) =>
                 restoredText' = restoredText]_vars

\* a decode has replaced tokens of a record of at least two entries
C14_Witness ==
    /\ op = "restoreHtmlContent"
    /\ preserved.counter >= 2
    /\ PlaceholderOccurrences(translatedText, preserved.placeholders) >= 2
    /\ PlaceholderOccurrences(restoredText, preserved.placeholders) = 0

\* no token of the record stands in s, in any casing
NoTokenInAnyCasing(s, entries) ==
    \A k \in 1..Len(entries) : ~Occurs(ToUpperCase(s), ToUpperCase(entries[k][1]))

\* C15: when the transformed text holds none of the record's tokens in any
\* casing, restoreHtmlContent returns it with only its full-width colons
\* rewritten to ASCII colons, and unchanged when it has none.
C15_AbsentTokenNoOp ==
    (op = "restoreHtmlContent"
         /\ NoTokenInAnyCasing(translatedText, preserved.placeholders)) =>
        /\ restoredText = WithAsciiColons(translatedText)
        /\ ~HasFullwidthColon(translatedText) => restoredText = translatedText

\* a record with entries was used on a text that holds none of its tokens
\* but holds full-width colons
C15_Witness ==
    /\ op = "restoreHtmlContent"
    /\ preserved.counter >= 2
    /\ NoTokenInAnyCasing(translatedText, preserved.placeholders)
    /\ HasFullwidthColon(translatedText)
    /\ restoredText # translatedText

\* position i of s lies inside one of the tag matches of a scan of s
InsideTag(s, i) == \E m \in ScanMatches(s, 1) : m[1] <= i /\ i <= m[2]

\* the starts of the entity matches of s that lie outside its tag matches
EntitiesOutsideTags(s) ==
    {i \in 1..Len(s) : EntitiesMatchEnd(s, i) # 0 /\ ~InsideTag(s, i)}

\* position i of s lies inside an entity match of s
InsideEntity(s, i) ==
    \E j \in 1..i : EntitiesMatchEnd(s, j) # 0 /\ i <= EntitiesMatchEnd(s, j)

\* the ASCII colons of s outside its tag matches and its entity matches
ColonsOutside(s) ==
    {i \in 1..Len(s) : s[i] = ":" /\ ~InsideTag(s, i) /\ ~InsideEntity(s, i)}

\* the class of a recorded fragment
FragmentClass(fragment) ==
    IF fragment[1] = "<" THEN "tag" ELSE IF fragment[1] = "&" THEN "entity" ELSE "colon"

\* the number of entries of the record with a fragment of the class
EntriesOfClass(entries, class) ==
    Cardinality({k \in 1..Len(entries) : FragmentClass(entries[k][2]) = class})

\* C16: every tag match of the input has one entry of the record, with the
\* whole tag text as its fragment; entities and colons inside a tag have
\* none: the record has one entry per tag match, one per entity match
\* outside tags and one per ASCII colon outside tags and entities, and no
\* other.
C16_PassOrdering ==
    op = "preserveHtmlContent" =>
        LET tags == ScanMatches(text, 1)
            entries == preserved.placeholders
        IN  /\ \A m \in tags :
                   LET k == Cardinality({n \in tags : n[1] <= m[1]})
                   IN  /\ k <= Len(entries)
                       /\ entries[k][2] = SubSeq(text, m[1], m[2])
            /\ EntriesOfClass(entries, "tag") = Cardinality(tags)
            /\ EntriesOfClass(entries, "entity") = Cardinality(EntitiesOutsideTags(text))
            /\ EntriesOfClass(entries, "colon") = Cardinality(ColonsOutside(text))
            /\ Len(entries) = Cardinality(tags) + Cardinality(EntitiesOutsideTags(text))
                                  + Cardinality(ColonsOutside(text))

\* the encoded text has a tag with an entity-like substring inside, and the
\* record has the one entry of the tag
C16_Witness ==
    /\ op = "preserveHtmlContent"
    /\ \E i \in 1..Len(text) : EntitiesMatchEnd(text, i) # 0 /\ InsideTag(text, i)
    /\ Len(preserved.placeholders) = 1

\* the first position of s where sub stands, 0 when it stands nowhere
IndexOf(s, sub) ==
    LET starts == {i \in 1..(Len(s) - Len(sub) + 1) : SubSeq(s, i, i + Len(sub) - 1) = sub}
    IN  IF starts = {} THEN 0 ELSE Min(starts)

\* tags before entities before colons
ClassRank(class) ==
    CASE class = "tag" -> 1
      [] class = "entity" -> 2
      [] OTHER -> 3

\* the j-th smallest element of a set of positions
NthPosition(positions, j) ==
    CHOOSE i \in positions : Cardinality({k \in positions : k <= i}) = j

\* the entries of the class, as indexes into the record, in insertion order
ClassEntries(entries, class) ==
    {k \in 1..Len(entries) : FragmentClass(entries[k][2]) = class}

\* C17: in the record of preserveHtmlContent entry k carries ordinal k - 1;
\* every tag entry comes before every entity entry, which comes before
\* every colon entry; and within a class the entries follow the fragments
\* of the text from left to right: the j-th entity entry holds the j-th
\* entity of the text, and of two entries of one class the earlier one has
\* its token further left in processedText.
C17_DiscoveryOrder ==
    op = "preserveHtmlContent" =>
        LET entries == preserved.placeholders
            entities == EntitiesOutsideTags(text)
        IN  /\ \A k \in 1..Len(entries) : entries[k][1] = PlaceholderOf(k - 1)
            /\ \A j, k \in 1..Len(entries) :
                   j < k =>
                       /\ ClassRank(FragmentClass(entries[j][2]))
                              <= ClassRank(FragmentClass(entries[k][2]))
                       /\ FragmentClass(entries[j][2]) = FragmentClass(entries[k][2]) =>
                              /\ IndexOf(processedText, entries[j][1]) > 0
                              /\ IndexOf(processedText, entries[j][1])
                                     < IndexOf(processedText, entries[k][1])
            /\ \A j \in 1..Cardinality(entities) :
                   LET k == NthPosition(ClassEntries(entries, "entity"), j)
                       i == NthPosition(entities, j)
                   IN  entries[k][2] = SubSeq(text, i, EntitiesMatchEnd(text, i))

\* the text has a colon left of an entity left of a tag, and the record has
\* them as tag, entity, colon
C17_Witness ==
    /\ op = "preserveHtmlContent"
    /\ Len(preserved.placeholders) = 3
    /\ FragmentClass(preserved.placeholders[1][2]) = "tag"
    /\ FragmentClass(preserved.placeholders[2][2]) = "entity"
    /\ FragmentClass(preserved.placeholders[3][2]) = "colon"
    /\ IndexOf(processedText, preserved.placeholders[3][1])
           < IndexOf(processedText, preserved.placeholders[2][1])
    /\ IndexOf(processedText, preserved.placeholders[2][1])
           < IndexOf(processedText, preserved.placeholders[1][1])

\* the text of the call as it stands: what the running pass has built so
\* far and what it has not scanned yet
MintCurrentText ==
    IF minting.pass = "done" THEN minting.processedText
    ELSE minting.processedText \o SubSeq(minting.s, minting.i, Len(minting.s))

\* C18: in every state of a preserveHtmlContent call, from the minting of a
\* token through the later passes to the return, every key of the record
\* stands in the text; the text and the record of the last state are the
\* ones preserveHtmlContent returns.
C18_TokensPresent ==
    /\ \A k \in 1..Len(minting.preserved.placeholders) :
           Occurs(MintCurrentText, minting.preserved.placeholders[k][1])
    /\ minting.pass = "done" =>
           /\ minting.processedText = preserveHtmlContent(minting.text).processedText
           /\ minting.preserved = preserveHtmlContent(minting.text).preserved

\* the colon pass has minted a token after the tag pass and the entity pass
\* each left one in the text
C18_Witness ==
    /\ minting.pass = "COLON"
    /\ minting.i > 1
    /\ minting.preserved.counter = 3
    /\ FragmentClass(minting.preserved.placeholders[1][2]) = "tag"
    /\ FragmentClass(minting.preserved.placeholders[2][2]) = "entity"
    /\ FragmentClass(minting.preserved.placeholders[3][2]) = "colon"

(***************************************************************************)
(* The order of the entries in restoreHtmlContent.                         *)
(***************************************************************************)

MaxOrderPieces == 2

\* a tag whose text holds a replacement pattern, and a colon
PatternText == <<"<", "a", " ", "$", "&", ">", ":">>

OrderTexts == TextsOf(PreservePieces, MaxOrderPieces) \cup {ExampleText, PatternText}

\* a transformation that writes a doubled delimiter once: two tokens that
\* stood side by side then share the delimiter between their ordinals
SqueezeDelimiters(encoded) ==
    LET j == IndexOf(encoded, PLACEHOLDER_SUFFIX \o PLACEHOLDER_PREFIX)
    IN  IF j = 0 THEN encoded
        ELSE SubSeq(encoded, 1, j - 1)
                 \o SubSeq(encoded, j + Len(PLACEHOLDER_SUFFIX), Len(encoded))

OrderTranslations(encoded) == Translations(encoded) \cup {SqueezeDelimiters(encoded)}

OrderInit ==
    /\ text \in OrderTexts
    /\ tagsLastIndex = 0
    /\ entitiesLastIndex = 0
    /\ op = "init"
    /\ detected = FALSE
    /\ processedText = <<>>
    /\ preserved = EmptyPreserved
    /\ translatedText = <<>>
    /\ restoredText = <<>>
    /\ sanitizedText = <<>>
    /\ cycles = <<>>
    /\ minting = <<>>
    /\ ms = <<>>
    /\ history = <<>>

\* restoreHtmlContent(translatedText, preserved) on what the transformation
\* made of processedText
OrderRestore ==
    /\ op \in {"preserveHtmlContent", "restoreHtmlContent"}
    /\ \E translated \in OrderTranslations(processedText) :
          /\ translatedText' = translated
          /\ restoredText' = restoreHtmlContent(translated, preserved)
          /\ preserved' = RecordAfterRestore(translated, preserved)
    /\ op' = "restoreHtmlContent"
    /\ detected' = FALSE
    /\ sanitizedText' = <<>>
    /\ UNCHANGED <<text, tagsLastIndex, entitiesLastIndex, processedText>>
    /\ UNCHANGED <<cycles, minting, ms, history>>

OrderNext == PreserveHtmlContent \/ OrderRestore

SpecOrder == OrderInit /\ [][OrderNext]_vars

\* the orders in which n entries can be taken
Orders(n) == {f \in [1..n -> 1..n] : \A i, j \in 1..n : i # j => f[i] # f[j]}

Permuted(entries, order) == [k \in 1..Len(entries) |-> entries[order[k]]]

\* restoring the tokens in every order of the entries gives restoredText
SameInEveryOrder ==
    \A order \in Orders(Len(preserved.placeholders)) :
        restoreHtmlContent(translatedText,
            [preserved EXCEPT !.placeholders = Permuted(preserved.placeholders, order)])
          = restoredText

\* the places of s where a token of the record stands, in any casing
TokenStarts(s, entries) ==
    {i \in 1..Len(s) :
        \E k \in 1..Len(entries) :
            /\ i + Len(entries[k][1]) - 1 <= Len(s)
            /\ ToUpperCase(SubSeq(s, i, i + Len(entries[k][1]) - 1))
                   = ToUpperCase(entries[k][1])}

\* no two token occurrences of s share a character
NoTokensOverlap(s, entries) ==
    \A i, j \in TokenStarts(s, entries) :
        i < j =>
            \A k \in 1..Len(entries) :
                (/\ i + Len(entries[k][1]) - 1 <= Len(s)
                 /\ ToUpperCase(SubSeq(s, i, i + Len(entries[k][1]) - 1))
                        = ToUpperCase(entries[k][1]))
                    => j > i + Len(entries[k][1]) - 1

MaxOf(S) == CHOOSE x \in S : \A y \in S : y <= x

\* String.prototype.trim
Trim(s) ==
    LET kept == {i \in 1..Len(s) : ~IsSpace(s[i])}
    IN  IF kept = {} THEN <<>> ELSE SubSeq(s, Min(kept), MaxOf(kept))

JsNull == [isNull |-> TRUE, text |-> <<>>]
JsString(s) == [isNull |-> FALSE, text |-> s]

\* createStandardResponse(code, data, ...) of ../types, as far as the code
\* and the data of the response go
createStandardResponse(code, data) == [code |-> code, data |-> data]

\* the codes an error response of ../errorHandler can carry
ErrorResponseCodes == {400, 429, 500, 503}

\* createErrorResponse(error, context).response of ../errorHandler
ErrorResponses == {createStandardResponse(code, JsNull) : code \in ErrorResponseCodes}

\* no response yet
NoResponse == [kind |-> "none", ok |-> FALSE, body |-> "none", text |-> <<>>]

\* fetch rejects: the network failed
Rejected == [kind |-> "rejected", ok |-> FALSE, body |-> "none", text |-> <<>>]

HttpResponse(ok, body, t) == [kind |-> "response", ok |-> ok, body |-> body, text |-> t]

AuthToken == <<"t", "o", "k", "e", "n">>

\* what the token endpoint can answer: not OK, an empty text, a blank text,
\* a padded token, or no answer at all
TokenResponses ==
    {Rejected, HttpResponse(FALSE, "text", <<>>)}
        \cup {HttpResponse(TRUE, "text", t) :
                  t \in {<<>>, <<" ">>, AuthToken, <<" ">> \o AuthToken}}

\* what the translation endpoint can answer: not OK, a body that is no
\* array, an empty array, a first result without translations or with an
\* empty list of them, a translation with a text, or no answer at all
TranslationResponses ==
    {Rejected, HttpResponse(FALSE, "text", <<>>)}
        \cup {HttpResponse(TRUE, body, <<>>) :
                  body \in {"notArray", "emptyArray", "noTranslations", "emptyTranslations"}}
        \cup {HttpResponse(TRUE, "translation", t) :
                  t \in {<<>>, <<" ">>, <<"H", "i">>, <<" ", "H", "i", " ">>}}

\* getToken without the check for an empty token
getTokenAcceptingEmpty(response) ==
    IF response.kind = "rejected" \/ ~response.ok
    THEN [threw |-> TRUE, token |-> <<>>]
    ELSE [threw |-> FALSE, token |-> response.text]

\* getToken(), first version, on the response of its fetch: it throws when
\* fetch rejects, when the response is not OK and when the token is empty
getToken(response) ==
    IF response.kind = "rejected" \/ ~response.ok \/ response.text = <<>>
    THEN [threw |-> TRUE, token |-> <<>>]
    ELSE [threw |-> FALSE, token |-> response.text]

\* getAuthToken(), second version: a blank token is refused as well, and
\* the token is returned trimmed
getAuthToken(response) ==
    IF \/ response.kind = "rejected"
       \/ ~response.ok
       \/ response.text = <<>>
       \/ Trim(response.text) = <<>>
    THEN [threw |-> TRUE, token |-> <<>>]
    ELSE [threw |-> FALSE, token |-> Trim(response.text)]

\* the responses a failed call of the version can resolve to: the first
\* version returns createStandardResponse(500, null) from every failing
\* branch and from its catch, the second returns what createErrorResponse
\* makes of the error
FailureResults(version) ==
    IF version = 1 THEN {createStandardResponse(500, JsNull)} ELSE ErrorResponses

\* what the first version makes of the translation response: the checks
\* of lines 107-134 and the catch return createStandardResponse(500, null),
\* a translation with a text returns it trimmed with code 200
TranslationResultV1(response) ==
    IF \/ response.kind = "rejected"
       \/ ~response.ok
       \/ response.body \in {"notArray", "emptyArray"}
       \/ response.body \in {"noTranslations", "emptyTranslations"}
       \/ response.text = <<>>
    THEN createStandardResponse(500, JsNull)
    ELSE createStandardResponse(200, JsString(Trim(response.text)))

\* what the second version makes of the translation response: every
\* failing check of lines 316-337 throws, a translation with a text
\* returns it trimmed with code 200
TranslationResultV2(response) ==
    IF \/ response.kind = "rejected"
       \/ ~response.ok
       \/ response.body \in {"notArray", "emptyArray"}
       \/ response.body \in {"noTranslations", "emptyTranslations"}
       \/ response.text = <<>>
    THEN [threw |-> TRUE, result |-> createStandardResponse(500, JsNull)]
    ELSE [threw |-> FALSE,
          result |-> createStandardResponse(200, JsString(Trim(response.text)))]

\* the promise of a call that has not resolved yet
Unresolved == createStandardResponse(0, JsNull)

\* LANGUAGE_MAP, as its <<key, value>> entries
LANGUAGE_MAP ==
    { <<<<"a", "u", "t", "o">>, <<>>>>,
      <<<<"z", "h">>, <<"z", "h", "-", "H", "a", "n", "s">>>>,
      <<<<"z", "h", "-", "c", "n">>, <<"z", "h", "-", "H", "a", "n", "s">>>>,
      <<<<"z", "h", "-", "t", "w">>, <<"z", "h", "-", "H", "a", "n", "t">>>>,
      <<<<"z", "h", "-", "h", "a", "n", "t">>, <<"z", "h", "-", "H", "a", "n", "t">>>>,
      <<<<"e", "n">>, <<"e", "n">>>>,
      <<<<"j", "a">>, <<"j", "a">>>>,
      <<<<"k", "o">>, <<"k", "o">>>>,
      <<<<"f", "r">>, <<"f", "r">>>>,
      <<<<"e", "s">>, <<"e", "s">>>>,
      <<<<"r", "u">>, <<"r", "u">>>>,
      <<<<"d", "e">>, <<"d", "e">>>>,
      <<<<"i", "t">>, <<"i", "t">>>>,
      <<<<"t", "r">>, <<"t", "r">>>>,
      <<<<"p", "t", "-", "p", "t">>, <<"p", "t", "-", "p", "t">>>>,
      <<<<"p", "t", "-", "b", "r">>, <<"p", "t">>>>,
      <<<<"p", "t">>, <<"p", "t">>>>,
      <<<<"v", "i">>, <<"v", "i">>>>,
      <<<<"i", "d">>, <<"i", "d">>>>,
      <<<<"t", "h">>, <<"t", "h">>>>,
      <<<<"m", "s">>, <<"m", "s">>>>,
      <<<<"a", "r">>, <<"a", "r">>>>,
      <<<<"h", "i">>, <<"h", "i">>>>,
      <<<<"m", "n", "-", "c", "y">>, <<"m", "n", "-", "C", "y", "r", "l">>>>,
      <<<<"m", "n", "-", "m", "o">>, <<"m", "n", "-", "M", "o", "n", "g">>>>,
      <<<<"k", "m">>, <<"k", "m">>>>,
      <<<<"n", "b", "-", "n", "o">>, <<"n", "b">>>>,
      <<<<"n", "b">>, <<"n", "b">>>>,
      <<<<"f", "a">>, <<"f", "a">>>>,
      <<<<"s", "v">>, <<"s", "v">>>>,
      <<<<"p", "l">>, <<"p", "l">>>>,
      <<<<"n", "l">>, <<"n", "l">>>>,
      <<<<"u", "k">>, <<"u", "k">>>>,
      <<<<"h", "e">>, <<"h", "e">>>> }

LanguageKeys == {entry[1] : entry \in LANGUAGE_MAP}

\* LANGUAGE_MAP[key], for a key of the map
LanguageMapGet(key) == (CHOOSE entry \in LANGUAGE_MAP : entry[1] = key)[2]

\* normalizeLanguageCode(lang): LANGUAGE_MAP[normalized] || normalized, where
\* a missing key gives undefined and || also passes over the empty string
normalizeLanguageCode(lang) ==
    LET normalized == ToLowerCase(lang)
    IN  IF normalized \in LanguageKeys /\ LanguageMapGet(normalized) # <<>>
        THEN LanguageMapGet(normalized)
        ELSE normalized

\* codes that are no key of LANGUAGE_MAP
OtherLanguageCodes == { <<"x", "x">>, <<"E", "N", "-", "G", "B">>, <<"z", "h", "-", "H", "K">> }

\* every key in lower case, in upper case and in mixed case, and the others
LanguageCodes ==
    LanguageKeys
        \cup {ToUpperCase(key) : key \in LanguageKeys}
        \cup {MixedCase(ToUpperCase(key)) : key \in LanguageKeys}
        \cup OtherLanguageCodes

\* the source_lang and target_lang of a request: every code as the source
\* with one target, and every code as the target with one source
LanguagePairs ==
    {<<code, <<"Z", "H", "-", "C", "N">>>> : code \in LanguageCodes}
        \cup {<<<<"E", "N">>, code>> : code \in LanguageCodes}

\* the from and to parameters of the translation request: the first
\* version sends the codes as they are and leaves from out for "auto", the
\* second sends both normalized
RequestLanguages(version, source, target) ==
    IF version = 1
    THEN [hasFrom |-> source # <<"a", "u", "t", "o">> /\ source # <<>>,
          from |-> IF source = <<"a", "u", "t", "o">> THEN <<>> ELSE source,
          to |-> target]
    ELSE [hasFrom |-> TRUE,
          from |-> normalizeLanguageCode(source),
          to |-> normalizeLanguageCode(target)]

RequestTexts == {<<"H", "e", "l", "l", "o">>, <<>>}

MsInit ==
    /\ ms \in {[version |-> v, text |-> t, source_lang |-> languages[1],
                target_lang |-> languages[2], pc |-> "start", fetches |-> <<>>,
                tokenResponse |-> NoResponse, translationResponse |-> NoResponse,
                result |-> Unresolved] :
                   v \in {1, 2}, t \in RequestTexts, languages \in LanguagePairs}
    /\ tagsLastIndex = 0
    /\ entitiesLastIndex = 0
    /\ text = <<>>
    /\ op = "init"
    /\ detected = FALSE
    /\ processedText = <<>>
    /\ preserved = EmptyPreserved
    /\ translatedText = <<>>
    /\ restoredText = <<>>
    /\ sanitizedText = <<>>
    /\ cycles = <<>>
    /\ minting = <<>>
    /\ history = <<>>

\* the call runs to its first await: the fetch of the token, a GET
translateWithMicrosoft ==
    /\ ms.pc = "start"
    /\ ms' = [ms EXCEPT
           !.pc = "awaitToken",
           !.fetches = Append(@, [method |-> "GET", authorization |-> <<>>,
                                  body |-> <<>>, hasFrom |-> FALSE,
                                  from |-> <<>>, to |-> <<>>])]
    /\ UNCHANGED <<patternVars, callVars, cycles, minting, history>>

\* the token fetch settles: the call resolves with a failure, or goes on to
\* its second await, the POST of the translation request
TokenFetched ==
    /\ ms.pc = "awaitToken"
    /\ \E response \in TokenResponses :
           LET t == IF ms.version = 1 THEN getToken(response) ELSE getAuthToken(response)
           IN  IF t.threw
               THEN \E failure \in FailureResults(ms.version) :
                        ms' = [ms EXCEPT !.pc = "resolved",
                                         !.tokenResponse = response,
                                         !.result = failure]
               ELSE LET languages == RequestLanguages(ms.version, ms.source_lang,
                                                      ms.target_lang)
                    IN  ms' = [ms EXCEPT
                            !.pc = "awaitTranslation",
                            !.tokenResponse = response,
                            !.fetches = Append(@, [method |-> "POST",
                                                   authorization |-> t.token,
                                                   body |-> ms.text,
                                                   hasFrom |-> languages.hasFrom,
                                                   from |-> languages.from,
                                                   to |-> languages.to])]
    /\ UNCHANGED <<patternVars, callVars, cycles, minting, history>>

\* the translation fetch settles and the call resolves
TranslationFetched ==
    /\ ms.pc = "awaitTranslation"
    /\ \E response \in TranslationResponses :
           \E result \in (IF ms.version = 1
                          THEN {TranslationResultV1(response)}
                          ELSE IF TranslationResultV2(response).threw
                               THEN ErrorResponses
                               ELSE {TranslationResultV2(response).result}) :
               ms' = [ms EXCEPT !.pc = "resolved",
                                !.translationResponse = response,
                                !.result = result]
    /\ UNCHANGED <<patternVars, callVars, cycles, minting, history>>

MsNext ==
    \/ translateWithMicrosoft
    \/ TokenFetched
    \/ TranslationFetched

SpecMicrosoft == MsInit /\ [][MsNext]_vars

\* the token GET was not OK, gave an empty token, or failed on the network
TokenFailed(response) ==
    \/ response.kind = "rejected"
    \/ response.kind = "response" /\ (~response.ok \/ response.text = <<>>)

C21_TwoOutcomes ==
    (ms.version = 1 /\ ms.pc = "resolved") =>
        /\ \/ /\ ms.result.code = 200
              /\ ~ms.result.data.isNull
              /\ ms.result.data.text # <<>>
           \/ /\ ms.result.code = 500
              /\ ms.result.data = JsNull
        /\ (\/ getToken(ms.tokenResponse).threw
            \/ ms.translationResponse.kind = "rejected"
            \/ ~ms.translationResponse.ok
            \/ ms.translationResponse.body # "translation"
            \/ ms.translationResponse.text = <<>>) =>
               (ms.result.code = 500 /\ ms.result.data = JsNull)

\* what C22 says normalizeLanguageCode returns: the value of the lower-cased
\* key, the empty string of "auto" included, and the lower-cased code for
\* a code that is no key
NormalizedAsClaimed(lang) ==
    IF ToLowerCase(lang) \in LanguageKeys
    THEN LanguageMapGet(ToLowerCase(lang))
    ELSE ToLowerCase(lang)

\* C22: for every key of LANGUAGE_MAP in any casing normalizeLanguageCode
\* returns the value of the lower-cased key ("ZH-CN" gives "zh-Hans",
\* "auto" gives the empty string), for any other code the lower-cased code;
\* and the translation request of the second version carries these values
\* as its from and to parameters.
C22_LanguageNormalization ==
    /\ normalizeLanguageCode(ms.source_lang) = NormalizedAsClaimed(ms.source_lang)
    /\ normalizeLanguageCode(ms.target_lang) = NormalizedAsClaimed(ms.target_lang)
    /\ \A k \in 1..Len(ms.fetches) :
           (ms.version = 2 /\ ms.fetches[k].method = "POST") =>
               /\ ms.fetches[k].from = NormalizedAsClaimed(ms.source_lang)
               /\ ms.fetches[k].to = NormalizedAsClaimed(ms.target_lang)

(***************************************************************************)
(* Calls of containsHtmlContent, preserveHtmlContent and                   *)
(* sanitizeHtmlContent in any order and on any texts.  The calls share     *)
(* HTML_PATTERNS.TAGS and HTML_PATTERNS.ENTITIES, whose lastIndex a        *)
(* containsHtmlContent call leaves behind.                                 *)
(***************************************************************************)

MaxHistoryPieces == 2

HistoryPieces ==
    { <<"<", "b", ">", "<", "s", "c", "r", "i", "p", "t", ">">>,
      <<"&", "a", ";", ":">> }

HistoryTexts == TextsOf(HistoryPieces, MaxHistoryPieces)

\* sanitizeHtmlContent scanning from the lastIndex the pattern holds, as a
\* loop of exec() calls would
sanitizeHtmlContentFromLastIndex(t, tagsIndex) ==
    IF tagsIndex > Len(t) THEN t
    ELSE SubSeq(t, 1, tagsIndex) \o SanitizeFrom(t, tagsIndex + 1)

\* sanitizeHtmlContent(text) called while HTML_PATTERNS.TAGS holds the given
\* lastIndex: text.replace(HTML_PATTERNS.TAGS, ...) sets it to 0 first.
\* SAFE_TAGS is a literal of the call and has no g flag
sanitizeHtmlContentFrom(t, tagsIndex) ==
    LET start == ReplaceLastIndex(tagsIndex)
    IN  IF start > Len(t) THEN t
        ELSE SubSeq(t, 1, start) \o SanitizeFrom(t, start + 1)

\* the lastIndex values the replace calls of the call being made find
LastIndexFound == [tagsLastIndex |-> tagsLastIndex,
                   entitiesLastIndex |-> entitiesLastIndex]

\* a containsHtmlContent call makes no replace call
NoReplaceCall == [tagsLastIndex |-> 0, entitiesLastIndex |-> 0]

HistoryInit ==
    /\ text = <<>>
    /\ tagsLastIndex = 0
    /\ entitiesLastIndex = 0
    /\ op = "init"
    /\ detected = FALSE
    /\ processedText = <<>>
    /\ preserved = EmptyPreserved
    /\ translatedText = <<>>
    /\ restoredText = <<>>
    /\ sanitizedText = <<>>
    /\ cycles = <<>>
    /\ minting = <<>>
    /\ ms = <<>>
    /\ history = NoReplaceCall

\* containsHtmlContent(t): the ENTITIES test runs only when the TAGS test fails
HistoryDetect ==
    \E t \in HistoryTexts :
        LET tags == RegExpTest("TAGS", t, tagsLastIndex)
            entities == RegExpTest("ENTITIES", t, entitiesLastIndex)
        IN  /\ text' = t
            /\ op' = "containsHtmlContent"
            /\ detected' = (tags.result \/ entities.result)
            /\ tagsLastIndex' = tags.lastIndex
            /\ entitiesLastIndex' = IF tags.result THEN entitiesLastIndex
                                    ELSE entities.lastIndex
            /\ processedText' = <<>>
            /\ preserved' = EmptyPreserved
            /\ sanitizedText' = <<>>
            /\ history' = NoReplaceCall
            /\ UNCHANGED <<translatedText, restoredText, cycles, minting, ms>>

\* preserveHtmlContent(t)
HistoryEncode ==
    \E t \in HistoryTexts :
        LET e == preserveHtmlContentFrom(t, tagsLastIndex, entitiesLastIndex)
        IN  /\ text' = t
            /\ op' = "preserveHtmlContent"
            /\ processedText' = e.processedText
            /\ preserved' = e.preserved
            /\ tagsLastIndex' = 0
            /\ entitiesLastIndex' = 0
            /\ detected' = FALSE
            /\ sanitizedText' = <<>>
            /\ history' = LastIndexFound
            /\ UNCHANGED <<translatedText, restoredText, cycles, minting, ms>>

\* sanitizeHtmlContent(t)
HistorySanitize ==
    \E t \in HistoryTexts :
        /\ text' = t
        /\ op' = "sanitizeHtmlContent"
        /\ sanitizedText' = sanitizeHtmlContentFrom(t, tagsLastIndex)
        /\ tagsLastIndex' = 0
        /\ detected' = FALSE
        /\ processedText' = <<>>
        /\ preserved' = EmptyPreserved
        /\ history' = LastIndexFound
        /\ UNCHANGED <<entitiesLastIndex, translatedText, restoredText,
                       cycles, minting, ms>>

HistoryNext ==
    \/ HistoryDetect
    \/ HistoryEncode
    \/ HistorySanitize

SpecHistory == HistoryInit /\ [][HistoryNext]_vars

\* C23: after any sequence of earlier containsHtmlContent,
\* preserveHtmlContent and sanitizeHtmlContent calls, whatever lastIndex
\* they left on the shared patterns, preserveHtmlContent(text) and
\* sanitizeHtmlContent(text) return what they return on a first call.
C23_HistoryIndependent ==
    /\ op = "preserveHtmlContent" =>
           /\ processedText = preserveHtmlContent(text).processedText
           /\ preserved = preserveHtmlContent(text).preserved
    /\ op = "sanitizeHtmlContent" =>
           sanitizedText = sanitizeHtmlContent(text)

\* preserveHtmlContent has run on a text with a tag and an entity while
\* earlier containsHtmlContent calls had left the tag pattern's lastIndex
\* behind the start of that tag and the entity pattern's lastIndex above 0
C23_Witness ==
    /\ op = "preserveHtmlContent"
    /\ history.tagsLastIndex > 0
    /\ history.entitiesLastIndex > 0
    /\ HasTagMatch(text)
    /\ HasEntityMatch(text)
    /\ SearchFrom("TAGS", text, 1)[1] <= history.tagsLastIndex
    /\ preserved.counter >= 2

\* C24: sanitizing is idempotent: sanitizeHtmlContent of the text that
\* sanitizeHtmlContent returned is that text again; a second pass finds no
\* further tag to delete.
C24_SanitizeIdempotent ==
    op = "sanitizeHtmlContent" =>
        sanitizeHtmlContent(sanitizedText) = sanitizedText

\* C25: fragments are restored literally: for each entry of the record whose
\* token stands in the transformed text, the text restoreHtmlContent returns
\* holds the recorded fragment character for character (its full-width
\* colons repaired as in the rest of the text) and no longer holds the
\* token, also when the fragment holds a replacement pattern of
\* String.replace such as "$&".
C25_FragmentsRestoredLiterally ==
    op = "restoreHtmlContent" =>
        \A k \in 1..Len(preserved.placeholders) :
            LET token == preserved.placeholders[k][1]
                original == preserved.placeholders[k][2]
            IN  Occurs(ToUpperCase(translatedText), ToUpperCase(token)) =>
                    /\ Occurs(restoredText, WithAsciiColons(original))
                    /\ ~Occurs(ToUpperCase(restoredText), ToUpperCase(token))

=============================================================================
